---- MODULE Spec2Model ----
(***************************************************************************)
(* Model of pdf-edit-api: process_pdf (mainn.py), the page-replacement     *)
(* pipeline.  One run of process_pdf is a sequential process; every call   *)
(* into an external collaborator (pypdf, pdftotext, tesseract, the Gemini  *)
(* service, LibreOffice, pdfunite, the file system) is an action whose     *)
(* outcome is chosen nondeterministically among the outcomes the code      *)
(* distinguishes.                                                          *)
(***************************************************************************)
EXTENDS Integers, Sequences, FiniteSets, TLC

\* ---------------------------------------------------------------- bounds
MaxPages == 4          \* largest input document, in pages
MaxRender == 3         \* most pages the renderer deposits

\* ------------------------------------------------------ program constants
PAGES_TO_PROCESS == 2
ScanWordThreshold == 20

\* ------------------------------------------------------------- file names
\* A path is a stem and an extension; os.path.splitext(p)[0] is the stem.
Stems == {"t1", "t2"}
InputPath == [stem |-> "in", ext |-> "pdf"]
OutputPath == [stem |-> "out", ext |-> "pdf"]
TempPaths == [stem : Stems, ext : {"html", "pdf"}]
Paths == TempPaths \cup {InputPath, OutputPath}
NoPath == [stem |-> "", ext |-> ""]

Absent == [ex |-> FALSE, pages |-> <<>>]
File(pages) == [ex |-> TRUE, pages |-> pages]

\* check_if_scanned has not run / line 73 of api.py has not been evaluated.
NoProbe == [exc |-> "unset", returncode |-> 0, words |-> 0]
NoCond == [success |-> FALSE, ex |-> FALSE, size |-> 0, decided |-> FALSE]

\* Concurrent requests and the temporary names they can be given.
Runs == {1, 2}
ConcStems == {"a", "b", "c", "d"}
ConcPaths == [stem : ConcStems, ext : {"html", "pdf"}]
NoNames == [out |-> NoPath, html |-> NoPath, rpdf |-> NoPath, tail |-> NoPath]

\* Pages of the original document are 1..P; page k of the rendered
\* replacement is 100 + k.
OriginalPages(p) == [i \in 1..p |-> i]
RenderedPages(r) == [i \in 1..r |-> 100 + i]

VARIABLES
    pc,                  \* position of the run inside process_pdf
    disk,                \* the file system: path -> file
    inReadable,          \* whether pypdf can parse the input document
    page_count, scanned, full_text, rewritten_html_body,
    html_path, rewritten_pdf_path, tail_path,
    temp_files, pdfs_to_merge,
    ret,                 \* value of the return statement that left the try
    returned,            \* what the caller received
    ci,                  \* index of the cleanup loop
    \* history of the run
    trace, failed, failedAt, created, attempted, delFailed,
    outWritten, aiCalls, mergeTool, rendered,
    scanProbe,           \* what check_if_scanned observed of pdftotext
    extractor,           \* the extractor variant that was run
    \* the /process endpoint (api.py)
    apc,                 \* position of the request inside process_endpoint
    resp,                \* the response of the request
    sendCond,            \* what line 73 of api.py observed
    \* concurrent requests: their temporary names
    cpc, cnames, cdisk

vars == <<pc, disk, inReadable, page_count, scanned, full_text,
          rewritten_html_body, html_path, rewritten_pdf_path, tail_path,
          temp_files, pdfs_to_merge, ret, returned, ci, trace, failed,
          failedAt, created, attempted, delFailed, outWritten, aiCalls,
          mergeTool, rendered, scanProbe, extractor, apc, resp, sendCond,
          cpc, cnames, cdisk>>

locals == <<page_count, scanned, full_text, rewritten_html_body, html_path,
            rewritten_pdf_path, tail_path, temp_files, pdfs_to_merge>>
cleanupHist == <<attempted, delFailed, ci, returned>>
probeVars == <<scanProbe, extractor>>
apiVars == <<apc, resp, sendCond>>
concVars == <<cpc, cnames, cdisk>>
outer == <<apiVars, concVars>>
pipeVars == <<pc, disk, inReadable, locals, cleanupHist, ret, trace, failed,
              failedAt, created, outWritten, aiCalls, mergeTool, rendered,
              probeVars>>

\* ------------------------------------------------------- pure functions
Min(a, b) == IF a < b THEN a ELSE b

Range(s) == {s[i] : i \in 1..Len(s)}

\* get_pdf_page_count: len(reader.pages), 0 on any read error.
GetPdfPageCount(file, readable) ==
    IF file.ex /\ readable THEN Len(file.pages) ELSE 0

\* Variant: the zero test written as a sign test.
CountAborts_negative(n) == n < 0

\* process_pdf line 187: the run is abandoned for a zero page count.
CountAborts(n) == n = 0

\* Variant: the threshold test written with <=.
CheckIfScanned_inclusive(exc, returncode, words) ==
    IF exc # "none" THEN FALSE
    ELSE returncode # 0 \/ words <= ScanWordThreshold

\* check_if_scanned: exc is the exception raised by subprocess.run, if any.
CheckIfScanned(exc, returncode, words) ==
    IF exc # "none" THEN FALSE
    ELSE returncode # 0 \/ words < ScanWordThreshold

\* Text values are classified as the code's truth tests see them:
\* "None", "empty" (''), "blank" (whitespace only), "text".
Falsy(t) == t \in {"None", "empty"}
Blank(t) == t \in {"None", "empty", "blank"}

\* run_ocr_on_pdf: "".join(image_to_string(img) + "\n\n" for img in images)
RunOcrOnPdf(exc, images) ==
    IF exc # "none" THEN "None"
    ELSE IF Len(images) = 0 THEN "empty"
    ELSE IF \E i \in 1..Len(images) : images[i] = "text" THEN "text"
    ELSE "blank"

\* extract_text_from_pdf: result.stdout verbatim, None on any error.
ExtractTextFromPdf(exc, stdout) ==
    IF exc # "none" THEN "None" ELSE stdout

\* Variant: the comparison written with >=.
NeedsSplice_atLeast(n) == n >= PAGES_TO_PROCESS

\* process_pdf line 222: the tail is spliced for documents longer than N.
NeedsSplice(n) == n > PAGES_TO_PROCESS

\* split_pdf: reader.pages[start_page - 1:]
SplitPages(pages, start_page) == SubSeq(pages, start_page, Len(pages))

\* pdfunite: the concatenation of the listed files, in listed order.
RECURSIVE Unite(_, _)
Unite(d, paths) ==
    IF paths = <<>> THEN <<>>
    ELSE d[Head(paths)].pages \o Unite(d, Tail(paths))

\* pdfunite exits with status 0 only when every listed file is a PDF.
PdfUnite(d, paths, outcome) ==
    IF \A i \in 1..Len(paths) : d[paths[i]].ex /\ d[paths[i]].pages # <<>>
      THEN outcome ELSE "CalledProcessError"

\* Variant: subprocess.run without check=True, the exit status is ignored.
MergePdfs_unchecked(toolOutcome) == "True"

\* merge_pdfs: True exactly when pdfunite ran and exited with status 0.
MergePdfs(toolOutcome) == IF toolOutcome = "ok" THEN "True" ELSE "False"

\* os.path.splitext(html_path)[0] + ".pdf"
ExpectedPdf(p) == [stem |-> p.stem, ext |-> "pdf"]

\* tempfile.NamedTemporaryFile(delete=False, suffix=...): a fresh name.
NamedTemporaryFile(d, suffix) ==
    {p \in TempPaths : p.ext = suffix /\ ~d[p].ex}

\* Variant: the uploaded document listed among the files to clean up.
TempFilesAtStart_withInput == <<InputPath>>

\* Line 183: `temp_files = []`.
TempFilesAtStart == <<>>

\* ------------------------------------------------------------------ Init
\* The locals and the history of a run that has not started (line 183).
InitRun ==
    /\ page_count = 0 /\ scanned = FALSE
    /\ full_text = "None" /\ rewritten_html_body = "None"
    /\ html_path = NoPath /\ rewritten_pdf_path = NoPath /\ tail_path = NoPath
    /\ temp_files = TempFilesAtStart /\ pdfs_to_merge = <<>>
    /\ ret = "unset" /\ returned = "unset" /\ ci = 0
    /\ trace = <<>> /\ failed = {} /\ failedAt = 0
    /\ created = {} /\ attempted = {} /\ delFailed = {}
    /\ outWritten = FALSE /\ aiCalls = 0 /\ mergeTool = FALSE
    /\ rendered = <<>>
    /\ scanProbe = NoProbe /\ extractor = "none"

\* No request is being served by the endpoint.
NoRequest ==
    /\ apc = "none" /\ resp = "none" /\ sendCond = NoCond

\* No concurrent requests are modelled.
NoConcurrency ==
    /\ cpc = [r \in Runs |-> "off"]
    /\ cnames = [r \in Runs |-> NoNames]
    /\ cdisk = [q \in ConcPaths |-> FALSE]

\* process_pdf called on an input document of 0..MaxPages pages, readable
\* or not, with an output path that does not exist or holds an empty file.
Init ==
    /\ pc = "count"
    /\ inReadable \in BOOLEAN
    /\ \E p \in 0..MaxPages, outEx \in BOOLEAN :
          disk = [q \in Paths |->
                    IF q = InputPath THEN File(OriginalPages(p))
                    ELSE IF q = OutputPath /\ outEx THEN File(<<>>)
                    ELSE Absent]
    /\ InitRun
    /\ NoRequest
    /\ NoConcurrency

\* Variant: the return statement placed outside the try/finally.
Fails_outsideTry(step) ==
    /\ ret' = "False"
    /\ pc' = "done"
    /\ failed' = failed \cup {step}
    /\ failedAt' = IF failedAt = 0 THEN Len(trace) + 1 ELSE failedAt

\* `return False` after step failed (lines 188, 195, 202, 217):
\* control moves to the finally block.
Fails(step) ==
    /\ ret' = "False"
    /\ pc' = "finally"
    /\ failed' = failed \cup {step}
    /\ failedAt' = IF failedAt = 0 THEN Len(trace) + 1 ELSE failedAt

\* Variant: the try statement without its `except Exception` clause; the
\* finally block runs and the exception reaches the caller.
Raises_uncaught(step) ==
    /\ ret' = "raised"
    /\ pc' = "finally"
    /\ failed' = failed \cup {step}
    /\ failedAt' = IF failedAt = 0 THEN Len(trace) + 1 ELSE failedAt

\* Lines 235-239: an exception raised inside the try block by step is
\* caught, logged and turned into `return False`.
Raises(step) ==
    /\ ret' = "False"
    /\ pc' = "finally"
    /\ failed' = failed \cup {step}
    /\ failedAt' = IF failedAt = 0 THEN Len(trace) + 1 ELSE failedAt

NoFail == UNCHANGED <<failed, failedAt>>

\* --------------------------------------------------------------- actions
\* Lines 186-188: page count; a zero count returns False.
GetPageCount ==
    /\ pc = "count"
    /\ trace' = Append(trace, "count")
    /\ page_count' = GetPdfPageCount(disk[InputPath], inReadable)
    /\ IF CountAborts(page_count')
         THEN Fails("count")
         ELSE pc' = "classify" /\ NoFail /\ UNCHANGED ret
    /\ UNCHANGED <<disk, inReadable, scanned, full_text, rewritten_html_body,
                   html_path, rewritten_pdf_path, tail_path, temp_files,
                   pdfs_to_merge, created, outWritten, aiCalls, mergeTool,
                   rendered>>
    /\ UNCHANGED cleanupHist
    /\ UNCHANGED <<probeVars, outer>>

\* Line 192, condition of the conditional expression: check_if_scanned.
ClassifyScan ==
    /\ pc = "classify"
    /\ trace' = Append(trace, "classify")
    /\ \E exc \in {"none", "FileNotFoundError", "Exception"},
          returncode \in {0, 1},
          words \in {0, ScanWordThreshold - 1, ScanWordThreshold} :
          /\ scanned' = CheckIfScanned(exc, returncode, words)
          /\ scanProbe' = IF exc = "none"
                             THEN [exc |-> exc, returncode |-> returncode,
                                   words |-> words]
                             ELSE [exc |-> exc, returncode |-> 0, words |-> 0]
    /\ pc' = "extract"
    /\ NoFail
    /\ UNCHANGED <<disk, inReadable, page_count, full_text,
                   rewritten_html_body, html_path, rewritten_pdf_path,
                   tail_path, temp_files, pdfs_to_merge, ret, created,
                   outWritten, aiCalls, mergeTool, rendered>>
    /\ UNCHANGED cleanupHist
    /\ UNCHANGED <<extractor, outer>>

\* Lines 193-195: `if not full_text: return False`.
AfterExtract ==
    /\ IF Falsy(full_text')
         THEN Fails("extract")
         ELSE pc' = "rewrite" /\ NoFail /\ UNCHANGED ret
    /\ UNCHANGED <<disk, inReadable, page_count, scanned,
                   rewritten_html_body, html_path, rewritten_pdf_path,
                   tail_path, temp_files, pdfs_to_merge, created,
                   outWritten, aiCalls, mergeTool, rendered>>
    /\ UNCHANGED cleanupHist
    /\ UNCHANGED <<scanProbe, outer>>

\* Line 192, scanned branch: run_ocr_on_pdf on the first N pages.
RunOcr ==
    /\ pc = "extract" /\ scanned
    /\ trace' = Append(trace, "extract")
    /\ \E exc \in {"none", "Exception"},
          images \in [1..Min(page_count, PAGES_TO_PROCESS) -> {"empty", "text"}] :
          full_text' = RunOcrOnPdf(exc, images)
    /\ extractor' = "ocr"
    /\ AfterExtract

\* Line 192, text branch: extract_text_from_pdf on the first N pages.
ExtractDirect ==
    /\ pc = "extract" /\ ~scanned
    /\ trace' = Append(trace, "extract")
    /\ \E exc \in {"none", "FileNotFoundError", "CalledProcessError"},
          stdout \in {"empty", "blank", "text"} :
          full_text' = ExtractTextFromPdf(exc, stdout)
    /\ extractor' = "direct"
    /\ AfterExtract

\* Variant: the guard without `not text.strip()`.
ServiceCalled_noStrip(text) == ~Falsy(text)

\* rewrite_text_with_ai: blank text yields "" without a service call.
ServiceCalled(text) == ~Blank(text)
RewriteTextWithAi(text, response) ==
    IF ~ServiceCalled(text) THEN "empty"
    ELSE IF response = "Exception" THEN "None"
    ELSE response

\* Lines 199-202: AI rewrite; `if not rewritten_html_body: return False`.
RewriteText ==
    /\ pc = "rewrite"
    /\ trace' = Append(trace, "rewrite")
    /\ \E response \in {"Exception", "empty", "blank", "markup"} :
          rewritten_html_body' = RewriteTextWithAi(full_text, response)
    /\ aiCalls' = IF ServiceCalled(full_text) THEN aiCalls + 1 ELSE aiCalls
    /\ IF Falsy(rewritten_html_body')
         THEN Fails("rewrite")
         ELSE pc' = "wrap" /\ NoFail /\ UNCHANGED ret
    /\ UNCHANGED <<disk, inReadable, page_count, scanned, full_text,
                   html_path, rewritten_pdf_path, tail_path, temp_files,
                   pdfs_to_merge, created, outWritten, mergeTool, rendered>>
    /\ UNCHANGED cleanupHist
    /\ UNCHANGED <<probeVars, outer>>

\* Lines 209-211: the wrapper HTML is written to a fresh temporary file,
\* whose name is tracked only after the write.
WriteHtml ==
    /\ pc = "wrap"
    /\ trace' = Append(trace, "wrap")
    /\ \E o \in {"ok", "create_fail", "write_fail"} :
          IF o = "create_fail"
            THEN /\ Raises("wrap")
                 /\ UNCHANGED <<disk, html_path, temp_files, created>>
            ELSE \E p \in NamedTemporaryFile(disk, "html") :
                    /\ html_path' = p
                    /\ created' = created \cup {p}
                    /\ IF o = "ok"
                         THEN /\ disk' = [disk EXCEPT ![p] = File(<<0>>)]
                              /\ temp_files' = Append(temp_files, p)
                              /\ pc' = "render" /\ NoFail /\ UNCHANGED ret
                         ELSE /\ disk' = [disk EXCEPT ![p] = File(<<>>)]
                              /\ UNCHANGED temp_files
                              /\ Raises("wrap")
    /\ UNCHANGED <<inReadable, page_count, scanned, full_text,
                   rewritten_html_body, rewritten_pdf_path, tail_path,
                   pdfs_to_merge, outWritten, aiCalls, mergeTool, rendered>>
    /\ UNCHANGED cleanupHist
    /\ UNCHANGED <<probeVars, outer>>

\* convert_html_to_pdf: the expected PDF's path when it exists after a
\* renderer run that exited with status 0, None otherwise.
ConvertHtmlToPdf(d, html, outcome) ==
    IF outcome \in {"no_soffice", "CalledProcessError"} THEN NoPath
    ELSE IF d[ExpectedPdf(html)].ex THEN ExpectedPdf(html)
    ELSE NoPath

\* Lines 215-222: render; `if not rewritten_pdf_path: return False`.
RenderHtml ==
    /\ pc = "render"
    /\ trace' = Append(trace, "render")
    /\ \E o \in {"no_soffice", "CalledProcessError", "no_output", "ok"},
          r \in 1..MaxRender :
          /\ IF o = "ok"
               THEN /\ disk' = [disk EXCEPT ![ExpectedPdf(html_path)] =
                                                File(RenderedPages(r))]
                    /\ created' = created \cup {ExpectedPdf(html_path)}
                    /\ rendered' = RenderedPages(r)
               ELSE UNCHANGED <<disk, created, rendered>>
          /\ rewritten_pdf_path' = ConvertHtmlToPdf(disk', html_path, o)
    /\ IF rewritten_pdf_path' = NoPath
         THEN Fails("render") /\ UNCHANGED <<temp_files, pdfs_to_merge>>
         ELSE /\ temp_files' = Append(temp_files, rewritten_pdf_path')
              /\ pdfs_to_merge' = <<rewritten_pdf_path'>>
              /\ pc' = IF NeedsSplice(page_count) THEN "splice" ELSE "merge"
              /\ NoFail /\ UNCHANGED ret
    /\ UNCHANGED <<inReadable, page_count, scanned, full_text,
                   rewritten_html_body, html_path, tail_path, outWritten,
                   aiCalls, mergeTool>>
    /\ UNCHANGED cleanupHist
    /\ UNCHANGED <<probeVars, outer>>

\* split_pdf: True when the tail was written, False on any exception.
SplitPdf(outcome) == outcome = "ok"

\* Lines 223-227: a fresh temporary file is created, split_pdf writes the
\* tail into it, and the file is tracked only when split_pdf returned True.
SplicePages ==
    /\ pc = "splice"
    /\ trace' = Append(trace, "splice")
    /\ \E o \in {"ok", "create_fail", "split_fail"} :
          IF o = "create_fail"
            THEN /\ Raises("splice")
                 /\ UNCHANGED <<disk, tail_path, temp_files, pdfs_to_merge,
                                created>>
            ELSE \E p \in NamedTemporaryFile(disk, "pdf") :
                    /\ tail_path' = p
                    /\ created' = created \cup {p}
                    /\ pc' = "merge"
                    /\ UNCHANGED ret
                    /\ IF SplitPdf(o)
                         THEN /\ disk' = [disk EXCEPT ![p] =
                                   File(SplitPages(disk[InputPath].pages,
                                                   PAGES_TO_PROCESS + 1))]
                              /\ pdfs_to_merge' = Append(pdfs_to_merge, p)
                              /\ temp_files' = Append(temp_files, p)
                         ELSE /\ disk' = [disk EXCEPT ![p] = File(<<>>)]
                              /\ UNCHANGED <<pdfs_to_merge, temp_files>>
                    /\ IF o = "ok" THEN NoFail
                       ELSE /\ failed' = failed \cup {"splice"}
                            /\ failedAt' = IF failedAt = 0
                                             THEN Len(trace) + 1 ELSE failedAt
    /\ UNCHANGED <<inReadable, page_count, scanned, full_text,
                   rewritten_html_body, html_path, rewritten_pdf_path,
                   outWritten, aiCalls, mergeTool, rendered>>
    /\ UNCHANGED cleanupHist
    /\ UNCHANGED <<probeVars, outer>>

\* Line 231, more than one part: merge_pdfs runs pdfunite.
MergeParts ==
    /\ pc = "merge" /\ Len(pdfs_to_merge) > 1
    /\ trace' = Append(trace, "merge")
    /\ mergeTool' = TRUE
    /\ \E outcome \in {"ok", "FileNotFoundError", "CalledProcessError"} :
          LET o == PdfUnite(disk, pdfs_to_merge, outcome) IN
          /\ ret' = MergePdfs(o)
          /\ IF o = "ok"
               THEN /\ disk' = [disk EXCEPT ![OutputPath] =
                                   File(Unite(disk, pdfs_to_merge))]
                    /\ outWritten' = TRUE
                    /\ NoFail
               ELSE /\ UNCHANGED <<disk, outWritten>>
                    /\ failed' = failed \cup {"merge"}
                    /\ failedAt' = IF failedAt = 0
                                     THEN Len(trace) + 1 ELSE failedAt
    /\ pc' = "finally"
    /\ UNCHANGED locals
    /\ UNCHANGED <<inReadable, created, aiCalls, rendered>>
    /\ UNCHANGED cleanupHist
    /\ UNCHANGED <<probeVars, outer>>

\* shutil.copyfile fails before it touches the destination when the source
\* cannot be opened.
CopyFile(d, src, outcome) == IF d[src].ex THEN outcome ELSE "open_fail"

\* Line 231, one part: shutil.copyfile(pdfs_to_merge[0], output) and True.
\* copyfile opens the destination for writing before it copies.
CopySingle ==
    /\ pc = "merge" /\ ~(Len(pdfs_to_merge) > 1)
    /\ trace' = Append(trace, "merge")
    /\ \E outcome \in {"ok", "open_fail", "copy_fail"} :
          LET o == CopyFile(disk, pdfs_to_merge[1], outcome) IN
          IF o = "ok"
            THEN /\ disk' = [disk EXCEPT ![OutputPath] =
                                File(disk[pdfs_to_merge[1]].pages)]
                 /\ outWritten' = TRUE
                 /\ ret' = "True"
                 /\ pc' = "finally"
                 /\ NoFail
            ELSE /\ IF o = "copy_fail"
                      THEN /\ disk' = [disk EXCEPT ![OutputPath] = File(<<>>)]
                           /\ outWritten' = TRUE
                      ELSE UNCHANGED <<disk, outWritten>>
                 /\ Raises("merge")
    /\ UNCHANGED locals
    /\ UNCHANGED <<inReadable, created, aiCalls, mergeTool, rendered>>
    /\ UNCHANGED cleanupHist
    /\ UNCHANGED <<probeVars, outer>>

\* Lines 240-243: the finally block starts.
EnterFinally ==
    /\ pc = "finally"
    /\ trace' = Append(trace, "cleanup")
    /\ ci' = 1
    /\ pc' = "cleanup"
    /\ UNCHANGED locals
    /\ UNCHANGED <<disk, inReadable, ret, returned, failed, failedAt, created,
                   attempted, delFailed, outWritten, aiCalls, mergeTool,
                   rendered>>
    /\ UNCHANGED <<probeVars, outer>>

\* Variant: the existence test inverted, `if not os.path.exists(f)`.
RemoveIfExists_inverted(d, f, o) ==
    IF ~d[f].ex /\ o = "ok" THEN [d EXCEPT ![f] = Absent] ELSE d

\* Lines 245-246: `if os.path.exists(f): os.remove(f)`; o is the outcome of
\* os.remove.
RemoveIfExists(d, f, o) ==
    IF d[f].ex /\ o = "ok" THEN [d EXCEPT ![f] = Absent] ELSE d

\* Variant: the try/except wrapped around the whole loop, so the first
\* os.remove that raises ends the loop.
NextCleanupIndex_abort(i, n, raised) == IF raised THEN n + 1 ELSE i + 1

\* Lines 243-248: the try/except is inside the loop body, so the loop goes
\* on to the next file whether or not os.remove raised.
NextCleanupIndex(i, n, raised) == i + 1

\* Lines 243-248: one iteration of the cleanup loop; an exception raised by
\* os.remove is caught inside the iteration.
CleanupFile ==
    /\ pc = "cleanup" /\ ci <= Len(temp_files)
    /\ LET f == temp_files[ci] IN
          /\ attempted' = attempted \cup {f}
          /\ \E o \in {"ok", "OSError"} :
                LET raised == disk[f].ex /\ o = "OSError" IN
                /\ disk' = RemoveIfExists(disk, f, o)
                /\ delFailed' = IF raised THEN delFailed \cup {f}
                                 ELSE delFailed
                /\ ci' = NextCleanupIndex(ci, Len(temp_files), raised)
    /\ UNCHANGED <<pc, returned>>
    /\ UNCHANGED locals
    /\ UNCHANGED <<inReadable, ret, trace, failed, failedAt, created,
                   outWritten, aiCalls, mergeTool, rendered>>
    /\ UNCHANGED <<probeVars, outer>>

\* Line 249 and the pending return: the caller receives the value.
Return ==
    /\ pc = "cleanup" /\ ci > Len(temp_files)
    /\ returned' = ret
    /\ pc' = "done"
    /\ UNCHANGED locals
    /\ UNCHANGED <<disk, inReadable, ret, ci, trace, failed, failedAt,
                   created, attempted, delFailed, outWritten, aiCalls,
                   mergeTool, rendered>>
    /\ UNCHANGED <<probeVars, outer>>

Next ==
    \/ GetPageCount
    \/ ClassifyScan
    \/ RunOcr
    \/ ExtractDirect
    \/ RewriteText
    \/ WriteHtml
    \/ RenderHtml
    \/ SplicePages
    \/ MergeParts
    \/ CopySingle
    \/ EnterFinally
    \/ CleanupFile
    \/ Return

Spec == Init /\ [][Next]_vars

\* Every variable stays within its type.
TypeOK ==
    /\ pc \in {"idle", "count", "classify", "extract", "rewrite", "wrap", "render",
               "splice", "merge", "finally", "cleanup", "done"}
    /\ page_count \in 0..(MaxPages + 1)
    /\ ret \in {"unset", "True", "False"}
    /\ returned \in {"unset", "True", "False"}
    /\ Range(temp_files) \subseteq TempPaths
    /\ aiCalls \in 0..1

\* ------------------------------------------ the /process endpoint (api.py)
\* In a request, InputPath and OutputPath are temp_in_path and temp_out_path.

\* A request arrives; the temporary directory is empty.
InitApi ==
    /\ pc = "idle"
    /\ inReadable \in BOOLEAN
    /\ disk = [q \in Paths |-> Absent]
    /\ InitRun
    /\ apc = "request" /\ resp = "none" /\ sendCond = NoCond
    /\ NoConcurrency

Remove(d, p) == [d EXCEPT ![p] = Absent]

\* Variant: only the existence of the output file is tested.
ShouldSend_existsOnly(success, ex, size) == ex

\* api.py line 73: success and os.path.exists(out) and getsize(out) > 0.
ShouldSend(success, ex, size) == success /\ ex /\ size > 0

\* api.py lines 93-94, the handler of the outer try: each file is removed
\* if it exists; an os.remove that raises leaves the handler.
ExceptHandler(d, rIn, rOut) ==
    IF d[InputPath].ex /\ rIn = "OSError" THEN d
    ELSE LET d1 == Remove(d, InputPath) IN
         IF d1[OutputPath].ex /\ rOut = "ok" THEN Remove(d1, OutputPath)
         ELSE d1

\* api.py lines 87-88, and lines 90-95 when one of the removals raises.
FailureCleanup(d, r1, r2, rIn, rOut) ==
    IF ~d[InputPath].ex \/ r1 = "OSError" THEN ExceptHandler(d, rIn, rOut)
    ELSE LET d1 == Remove(d, InputPath) IN
         IF ~d1[OutputPath].ex THEN d1
         ELSE IF r2 = "ok" THEN Remove(d1, OutputPath)
         ELSE ExceptHandler(d1, rIn, rOut)

\* api.py lines 77-81, the after_this_request callback: the two removals
\* share one try block.
AfterCleanup(d, r1, r2) ==
    IF ~d[InputPath].ex \/ r1 = "OSError" THEN d
    ELSE LET d1 == Remove(d, InputPath) IN
         IF d1[OutputPath].ex /\ r2 = "ok" THEN Remove(d1, OutputPath)
         ELSE d1

\* api.py lines 52-55: the upload must be a file named *.pdf.
ApiValidate ==
    /\ apc = "request"
    /\ \E valid \in BOOLEAN :
          IF valid THEN apc' = "save" /\ UNCHANGED resp
          ELSE apc' = "finished" /\ resp' = "400"
    /\ UNCHANGED <<pipeVars, sendCond, concVars>>

\* api.py lines 58-67: the upload is saved to a new temporary file, then a
\* second temporary file is created for the output; any exception is
\* answered with status 500.
ApiSaveTemps ==
    /\ apc = "save"
    /\ \E o \in {"ok", "in_create_fail", "save_fail", "out_create_fail"},
          p \in 0..MaxPages :
          /\ disk' = CASE o = "ok" ->
                            [disk EXCEPT ![InputPath] = File(OriginalPages(p)),
                                         ![OutputPath] = File(<<>>)]
                       [] o = "in_create_fail" -> disk
                       [] o = "save_fail" ->
                            [disk EXCEPT ![InputPath] = File(<<>>)]
                       [] o = "out_create_fail" ->
                            [disk EXCEPT ![InputPath] = File(OriginalPages(p))]
          /\ IF o = "ok" THEN apc' = "call" /\ UNCHANGED resp
             ELSE apc' = "finished" /\ resp' = "500"
    /\ UNCHANGED <<pc, inReadable, locals, cleanupHist, ret, trace, failed,
                   failedAt, created, outWritten, aiCalls, mergeTool,
                   rendered, probeVars, sendCond, concVars>>

\* api.py line 71: process_pdf(temp_in_path, temp_out_path) is called.
ApiCallProcess ==
    /\ apc = "call"
    /\ pc = "idle"
    /\ pc' = "count"
    /\ apc' = "running"
    /\ UNCHANGED <<disk, inReadable, locals, cleanupHist, ret, trace, failed,
                   failedAt, created, outWritten, aiCalls, mergeTool,
                   rendered, probeVars, resp, sendCond, concVars>>

\* api.py lines 73-95: process_pdf has returned; the file is sent, with the
\* cleanup callback registered, or the temporary files are removed and the
\* request is answered with status 500.
ApiRespond ==
    /\ apc = "running" /\ pc = "done"
    /\ LET success == returned = "True"
           ex == disk[OutputPath].ex
           size == Len(disk[OutputPath].pages)
       IN /\ sendCond' = [success |-> success, ex |-> ex, size |-> size,
                          decided |-> TRUE]
          /\ \E send \in {"ok", "raise"},
                r1, r2, rIn, rOut \in {"ok", "OSError"} :
                IF ShouldSend(success, ex, size)
                  THEN /\ apc' = "after"
                       /\ IF send = "ok"
                            THEN resp' = "file" /\ UNCHANGED disk
                            ELSE /\ resp' = "500"
                                 /\ disk' = ExceptHandler(disk, rIn, rOut)
                  ELSE /\ apc' = "finished"
                       /\ resp' = "500"
                       /\ disk' = FailureCleanup(disk, r1, r2, rIn, rOut)
    /\ UNCHANGED <<pc, inReadable, locals, cleanupHist, ret, trace, failed,
                   failedAt, created, outWritten, aiCalls, mergeTool,
                   rendered, probeVars, concVars>>

\* api.py lines 74-82: the after_this_request callback runs.
ApiAfterRequest ==
    /\ apc = "after"
    /\ \E r1, r2 \in {"ok", "OSError"} : disk' = AfterCleanup(disk, r1, r2)
    /\ apc' = "finished"
    /\ UNCHANGED <<pc, inReadable, locals, cleanupHist, ret, trace, failed,
                   failedAt, created, outWritten, aiCalls, mergeTool,
                   rendered, probeVars, resp, sendCond, concVars>>

NextApi ==
    \/ ApiValidate
    \/ ApiSaveTemps
    \/ ApiCallProcess
    \/ GetPageCount
    \/ ClassifyScan
    \/ RunOcr
    \/ ExtractDirect
    \/ RewriteText
    \/ WriteHtml
    \/ RenderHtml
    \/ SplicePages
    \/ MergeParts
    \/ CopySingle
    \/ EnterFinally
    \/ CleanupFile
    \/ Return
    \/ ApiRespond
    \/ ApiAfterRequest

SpecApi == InitApi /\ [][NextApi]_vars

\* --------------------------------------------------- concurrent requests
\* Two requests are served at the same time.  Only the naming of their
\* files is modelled: cdisk tells which names exist in the temporary
\* directory, cnames which names each request is using.

InitConc ==
    /\ pc = "idle"
    /\ inReadable = TRUE
    /\ disk = [q \in Paths |-> Absent]
    /\ InitRun
    /\ NoRequest
    /\ cpc = [r \in Runs |-> "start"]
    /\ cnames = [r \in Runs |-> NoNames]
    /\ cdisk = [q \in ConcPaths |-> FALSE]

\* tempfile.NamedTemporaryFile(delete=False, suffix=...): a name that does
\* not exist in the temporary directory at the time of the call.
FreshNames(d, suffix) == {p \in ConcPaths : p.ext = suffix /\ ~d[p]}

\* api.py lines 63-64: the request's output file is created.
ConcCreateOutput(r) ==
    /\ cpc[r] = "start"
    /\ \E p \in FreshNames(cdisk, "pdf") :
          /\ cdisk' = [cdisk EXCEPT ![p] = TRUE]
          /\ cnames' = [cnames EXCEPT ![r].out = p]
    /\ cpc' = [cpc EXCEPT ![r] = "wrap"]
    /\ UNCHANGED <<pipeVars, apiVars>>

\* mainn.py lines 209-211: the wrapper HTML file is created.
ConcWriteHtml(r) ==
    /\ cpc[r] = "wrap"
    /\ \E p \in FreshNames(cdisk, "html") :
          /\ cdisk' = [cdisk EXCEPT ![p] = TRUE]
          /\ cnames' = [cnames EXCEPT ![r].html = p]
    /\ cpc' = [cpc EXCEPT ![r] = "render"]
    /\ UNCHANGED <<pipeVars, apiVars>>

\* mainn.py lines 125-135, 218: the renderer writes the PDF named after the
\* HTML file's stem, whether or not a file of that name exists; when it
\* fails the run goes to its cleanup.
ConcRender(r) ==
    /\ cpc[r] = "render"
    /\ \E ok \in BOOLEAN :
          IF ok
            THEN /\ cdisk' = [cdisk EXCEPT ![ExpectedPdf(cnames[r].html)] = TRUE]
                 /\ cnames' = [cnames EXCEPT
                                 ![r].rpdf = ExpectedPdf(cnames[r].html)]
                 /\ cpc' = [cpc EXCEPT ![r] = "splice"]
            ELSE /\ UNCHANGED <<cdisk, cnames>>
                 /\ cpc' = [cpc EXCEPT ![r] = "cleanup"]
    /\ UNCHANGED <<pipeVars, apiVars>>

\* mainn.py lines 222-227: the file of the spliced tail is created, for a
\* document of more than N pages.
ConcSplice(r) ==
    /\ cpc[r] = "splice"
    /\ \E long \in BOOLEAN :
          IF long
            THEN \E p \in FreshNames(cdisk, "pdf") :
                    /\ cdisk' = [cdisk EXCEPT ![p] = TRUE]
                    /\ cnames' = [cnames EXCEPT ![r].tail = p]
            ELSE UNCHANGED <<cdisk, cnames>>
    /\ cpc' = [cpc EXCEPT ![r] = "cleanup"]
    /\ UNCHANGED <<pipeVars, apiVars>>

\* mainn.py lines 243-248 and api.py lines 77-94: the request removes the
\* files it tracked and stops using their names.
ConcCleanup(r) ==
    /\ cpc[r] = "cleanup"
    /\ cdisk' = [q \in ConcPaths |->
                    IF q \in {cnames[r].out, cnames[r].html, cnames[r].rpdf,
                              cnames[r].tail}
                      THEN FALSE ELSE cdisk[q]]
    /\ cnames' = [cnames EXCEPT ![r] = NoNames]
    /\ cpc' = [cpc EXCEPT ![r] = "done"]
    /\ UNCHANGED <<pipeVars, apiVars>>

NextConc ==
    \/ \E r \in Runs : ConcCreateOutput(r)
    \/ \E r \in Runs : ConcWriteHtml(r)
    \/ \E r \in Runs : ConcRender(r)
    \/ \E r \in Runs : ConcSplice(r)
    \/ \E r \in Runs : ConcCleanup(r)

SpecConc == InitConc /\ [][NextConc]_vars

\* ------------------------------------------------------------ properties
Done == pc = "done"

Invoked(step) == step \in Range(trace)

\* Order of the pipeline's steps.
Rank(step) ==
    CASE step = "count" -> 1
      [] step = "classify" -> 2
      [] step = "extract" -> 3
      [] step = "rewrite" -> 4
      [] step = "wrap" -> 5
      [] step = "render" -> 6
      [] step = "splice" -> 7
      [] step = "merge" -> 8
      [] step = "cleanup" -> 9

\* C1: when process_pdf has returned, no intermediate file the run created
\* (wrapper HTML, rendered PDF, spliced tail) exists on disk.
C1_NoIntermediateLeft ==
    Done => \A p \in created : ~disk[p].ex

\* C2: once a step has failed, process_pdf returns false and no step other
\* than cleanup is invoked after the failed step.
C2_FailureShortCircuits ==
    (Done /\ failedAt # 0) =>
        /\ returned = "False"
        /\ \A i \in (failedAt + 1)..Len(trace) : trace[i] = "cleanup"

C4_OutputIsRenderedPlusTail ==
    (Done /\ page_count > PAGES_TO_PROCESS /\ returned = "True") =>
        /\ disk[OutputPath].pages =
               rendered \o SplitPages(disk[InputPath].pages,
                                      PAGES_TO_PROCESS + 1)
        /\ Len(rendered) = PAGES_TO_PROCESS =>
               Len(disk[OutputPath].pages) = page_count

\* C5: for an input of 1..N pages neither the splice step nor the merge
\* tool is invoked, and on success the output is a copy of the rendered
\* replacement alone.
C5_ShortDocumentIsCopied ==
    (page_count >= 1 /\ page_count <= PAGES_TO_PROCESS) =>
        /\ ~Invoked("splice")
        /\ ~mergeTool
        /\ returned = "True" => disk[OutputPath] = File(rendered)

C5_Witness ==
    /\ Done /\ page_count = PAGES_TO_PROCESS /\ returned = "True"
    /\ Invoked("merge") /\ disk[OutputPath].pages = rendered
    /\ rendered # <<>>

\* C6: when the page counter reports 0, process_pdf returns false, no step
\* other than cleanup follows, and nothing is written at the output path.
C6_ZeroPagesAborts ==
    (Invoked("count") /\ page_count = 0) =>
        /\ Range(trace) \subseteq {"count", "cleanup"}
        /\ aiCalls = 0 /\ ~mergeTool
        /\ ~outWritten /\ disk[OutputPath].pages = <<>>
        /\ created = {}
        /\ returned # "True"
        /\ Done => returned = "False"

C6_Witness ==
    Done /\ page_count = 0 /\ returned = "False" /\ ~inReadable
         /\ Len(disk[InputPath].pages) > 0

C8_OutputOnlyIfAllSucceeded ==
    outWritten => failed = {}

\* C9: the steps of a run occur in the fixed order count, classify, extract,
\* rewrite, render, splice, merge, cleanup, each at most once, and cleanup
\* runs exactly once, last, on every path.
C9_FixedOrderCleanupLast ==
    /\ \A i, j \in 1..Len(trace) : i < j => Rank(trace[i]) < Rank(trace[j])
    /\ trace # <<>> => trace[1] = "count"
    /\ Done => /\ trace # <<>>
               /\ trace[Len(trace)] = "cleanup"
               /\ Cardinality({i \in 1..Len(trace) : trace[i] = "cleanup"}) = 1

C9_Witness ==
    /\ Done
    /\ trace = <<"count", "classify", "extract", "rewrite", "wrap", "render",
                 "splice", "merge", "cleanup">>

\* C10: when the removal of a temporary file fails during cleanup, the
\* result is still the one the pipeline decided, a boolean is returned, and
\* the removal of every other tracked file is still attempted.
C10_CleanupFailureSwallowed ==
    (Done /\ delFailed # {}) =>
        /\ returned \in {"True", "False"}
        /\ returned = ret
        /\ returned = "True" <=> (Invoked("merge") /\ "merge" \notin failed)
        /\ Range(temp_files) \subseteq attempted
        /\ \A p \in Range(temp_files) \ delFailed : ~disk[p].ex

C10_Witness ==
    /\ Done /\ returned = "True" /\ Len(temp_files) = 3
    /\ temp_files[1] \in delFailed
    /\ ~disk[temp_files[2]].ex /\ ~disk[temp_files[3]].ex

\* C11: the generative text service is called at most once per run and
\* never with empty or whitespace-only text; for such text the rewrite
\* returns the empty result without a call and the run fails.
C11_ServiceOnceNeverBlank ==
    /\ aiCalls <= 1
    /\ aiCalls = 1 => full_text = "text"
    /\ (Invoked("rewrite") /\ Blank(full_text)) =>
          /\ aiCalls = 0
          /\ rewritten_html_body = "empty"
          /\ "rewrite" \in failed
          /\ Done => returned = "False"

C11_Witness ==
    /\ Done /\ Invoked("rewrite") /\ full_text = "blank"
    /\ aiCalls = 0 /\ returned = "False"

\* C13: each text extractor returns a non-empty text or the failure signal
\* None, never an empty or blank string.
C13_ExtractorsNeverBlank ==
    Invoked("extract") => full_text \in {"None", "text"}

\* C18: process_pdf never lets an exception reach its caller: whatever
\* fails, it returns a boolean, and it returns true only from the final
\* merge-or-copy step.
C18_AlwaysReturnsBoolean ==
    /\ ret \in {"unset", "True", "False"}
    /\ Done => returned \in {"True", "False"}
    /\ returned = "True" =>
          /\ Len(trace) >= 2
          /\ trace[Len(trace) - 1] = "merge"
          /\ "merge" \notin failed

C18_Witness ==
    /\ Done /\ returned = "False"
    /\ failed = {"splice", "merge"}
    /\ tail_path # NoPath

C12_ScannedIffFailedOrFewWords ==
    Invoked("classify") =>
        /\ scanned <=> (\/ scanProbe.exc # "none"
                        \/ scanProbe.returncode # 0
                        \/ scanProbe.words < ScanWordThreshold)
        /\ "classify" \notin failed
        /\ Invoked("extract") =>
              extractor = IF scanned THEN "ocr" ELSE "direct"

\* C12 (amended): the document is classified as scanned exactly when
\* pdftotext ran on page 1 and exited with a non-zero status or yielded
\* fewer than 20 words, and as text otherwise, also when the tool could
\* not be run; the classifier always returns a verdict, the run goes on
\* to extraction, and the matching extractor is run.
C12_ScannedIffToolRanAndFailedOrFewWords ==
    Invoked("classify") =>
        /\ scanned <=> (/\ scanProbe.exc = "none"
                        /\ \/ scanProbe.returncode # 0
                           \/ scanProbe.words < ScanWordThreshold)
        /\ "classify" \notin failed
        /\ pc # "classify" /\ (pc = "extract" \/ Invoked("extract"))
        /\ Invoked("extract") =>
              extractor = IF scanned THEN "ocr" ELSE "direct"

C12_Witness ==
    /\ Invoked("extract") /\ extractor = "direct" /\ ~scanned
    /\ scanProbe.exc = "none" /\ scanProbe.returncode = 0
    /\ scanProbe.words = ScanWordThreshold

\* C16: the endpoint sends a PDF only when process_pdf returned true and
\* the output file exists with a size above zero; in every other case it
\* answers with an error status and sends no file.
C16_FileOnlyOnSuccess ==
    /\ resp = "file" =>
          /\ returned = "True"
          /\ sendCond.success /\ sendCond.ex /\ sendCond.size > 0
    /\ (sendCond.decided
          /\ ~(sendCond.success /\ sendCond.ex /\ sendCond.size > 0)) =>
          resp = "500"
    /\ (apc = "finished" /\ resp # "file") => resp \in {"400", "500"}

C16_Witness ==
    /\ apc = "finished" /\ resp = "file" /\ returned = "True"
    /\ sendCond.size > 0

\* C17: once the response of a request has been sent, on every path, the
\* temporary input file and the temporary output file are gone.
C17_RequestTempsRemoved ==
    apc = "finished" => ~disk[InputPath].ex /\ ~disk[OutputPath].ex

\* The names a request is using.
Used(r) ==
    {cnames[r].out, cnames[r].html, cnames[r].rpdf, cnames[r].tail} \ {NoPath}

\* C14: while two runs execute concurrently, no temporary or output path
\* used by one run is used by the other.
C14_TempNamesDisjoint ==
    \A r, q \in Runs : r # q => Used(r) \cap Used(q) = {}

====
